---- MODULE Spec2Model ----
(***************************************************************************)
(* A model of openapi_gateway.py: an API gateway that loads an OpenAPI     *)
(* document at startup, registers one route per declared (path, method),   *)
(* validates each request against the operation bound to its route and     *)
(* forwards valid requests to one upstream service.                        *)
(*                                                                         *)
(* Strings that the code inspects character by character (paths and path   *)
(* templates) are sequences of one-character strings.  Python dicts are    *)
(* sequences of <<key, value>> pairs in insertion order.  An exception     *)
(* that no handler of the code catches surfaces as the framework's 500.    *)
(***************************************************************************)
EXTENDS Integers, Sequences, FiniteSets, TLC

VARIABLES
    spec_file,      \* the document found at OPENAPI_SPEC_PATH
    phase,          \* "init" | "serving" | "aborted": the startup event's outcome
    app_spec,       \* app.openapi_spec: [set |-> hasattr(app, 'openapi_spec'), doc]
    routes,         \* app.router.routes, in registration order
    pc,             \* where the request in flight stands
    req,            \* the request in flight
    entry,          \* index in routes of the route handling it (0: none)
    op_def,         \* the operation the handling endpoint closure holds
    trace,          \* the steps the endpoint has completed for the request
    upstream,       \* the upstream call issued for the request
    resp            \* the response returned to the caller

vars == <<spec_file, phase, app_spec, routes, pc, req, entry, op_def, trace, upstream, resp>>

(***************************************************************************)
(* Bounds                                                                  *)
(***************************************************************************)
\* the longest parameter list an operation of the model declares
MaxParams == 2

(***************************************************************************)
(* Text                                                                    *)
(***************************************************************************)
\* str.lower() on the vocabulary of the model
lower(s) ==
    CASE s = "GET" -> "get"
      [] s = "POST" -> "post"
      [] s = "PUT" -> "put"
      [] s = "DELETE" -> "delete"
      [] s = "PATCH" -> "patch"
      [] s = "HEAD" -> "head"
      [] s = "Get" -> "get"
      [] s = "Server" -> "server"
      [] s = "Transfer-Encoding" -> "transfer-encoding"
      [] s = "Content-Encoding" -> "content-encoding"
      [] s = "Content-Length" -> "content-length"
      [] s = "Content-Type" -> "content-type"
      [] s = "X-Request-Id" -> "x-request-id"
      [] OTHER -> s

\* str.upper() on the vocabulary of the model
upper(s) ==
    CASE s = "get" -> "GET"
      [] s = "post" -> "POST"
      [] s = "put" -> "PUT"
      [] s = "delete" -> "DELETE"
      [] s = "patch" -> "PATCH"
      [] s = "head" -> "HEAD"
      [] s = "parameters" -> "PARAMETERS"
      [] OTHER -> s

RECURSIVE split_from(_, _, _, _)
split_from(s, sep, i, cur) ==
    IF i > Len(s) THEN <<cur>>
    ELSE IF s[i] = sep THEN <<cur>> \o split_from(s, sep, i + 1, <<>>)
    ELSE split_from(s, sep, i + 1, Append(cur, s[i]))

\* str.split(sep): "/items/42" gives ["", "items", "42"]
split(s, sep) == split_from(s, sep, 1, <<>>)

startswith(s, c) == Len(s) > 0 /\ s[1] = c
endswith(s, c) == Len(s) > 0 /\ s[Len(s)] = c

\* the paths and path templates of the model
P_items == <<"/", "i", "t", "e", "m", "s">>
P_items_id == P_items \o <<"/", "{", "i", "d", "}">>
P_items_42 == P_items \o <<"/", "4", "2">>
P_items_abc == P_items \o <<"/", "a", "b", "c">>
P_items_me == P_items \o <<"/", "m", "e">>
P_items_42_extra == P_items_42 \o <<"/", "e", "x", "t", "r", "a">>
P_items_slash == P_items \o <<"/">>
P_health == <<"/", "h", "e", "a", "l", "t", "h">>
P_ready == <<"/", "r", "e", "a", "d", "y">>
P_kind == <<"/", "{", "k", "i", "n", "d", "}">>
P_kind_me == P_kind \o <<"/", "m", "e">>

(***************************************************************************)
(* The OpenAPI document                                                    *)
(***************************************************************************)
\* a JSON string and a JSON integer: Python compares them unequal
JStr(v) == [t |-> "str", v |-> v]
JInt(v) == [t |-> "int", v |-> v]

\* a Parameter Object: "required" and "schema.enum" are optional keys
Param(in, name, required, enum) ==
    [in |-> in, name |-> name,
     has_required |-> required # "absent", required |-> (required = "true"),
     has_enum |-> enum # <<>>, enum |-> enum]

EnumAB == <<JStr("a"), JStr("b")>>
Enum12 == <<JInt("1"), JInt("2")>>

ParamSpecs ==
    { Param("query", "p", "true", <<>>),
      Param("query", "p", "true", EnumAB),
      Param("query", "p", "false", EnumAB),
      Param("query", "p", "absent", <<>>),
      Param("query", "p", "false", Enum12),
      Param("query", "q", "true", <<>>),
      Param("query", "q", "false", EnumAB),
      Param("query", "q", "absent", <<>>),
      Param("header", "p", "true", <<>>) }

\* a Request Body Object: its content maps media types to media type objects,
\* whose "schema" key is optional; the schema of the model lists required fields
NoBody == [present |-> FALSE, media |-> {}, has_schema |-> FALSE, required |-> {}]
JsonBody == [present |-> TRUE, media |-> {"application/json"}, has_schema |-> TRUE, required |-> {"name"}]
JsonAnyBody == [present |-> TRUE, media |-> {"application/json"}, has_schema |-> TRUE, required |-> {}]
JsonNoSchemaBody == [present |-> TRUE, media |-> {"application/json"}, has_schema |-> FALSE, required |-> {}]
XmlBody == [present |-> TRUE, media |-> {"application/xml"}, has_schema |-> TRUE, required |-> {"name"}]

\* an Operation Object
Operation(id, parameters, requestBody) ==
    [operationId |-> id, has_parameters |-> TRUE, parameters |-> parameters, requestBody |-> requestBody]

\* an Operation Object without the "parameters" key
PlainOperation(id, requestBody) ==
    [operationId |-> id, has_parameters |-> FALSE, parameters |-> <<>>, requestBody |-> requestBody]

\* Python's None, where an operation is expected
None == [operationId |-> "None", has_parameters |-> FALSE, parameters |-> <<>>, requestBody |-> NoBody]

\* the parameter lists the meta-schema validation accepts: no two parameters of a
\* list share location and name
ParamLists ==
    { ps \in UNION { [1..n -> ParamSpecs] : n \in 0..MaxParams } :
        \A i, j \in 1..Len(ps) : (ps[i].in = ps[j].in /\ ps[i].name = ps[j].name) => i = j }

Operations ==
    { Operation("op", ps, b) : ps \in ParamLists, b \in {NoBody, JsonBody} }
    \cup { PlainOperation("op", b) : b \in {NoBody, JsonBody, JsonAnyBody, JsonNoSchemaBody, XmlBody} }

\* a Path Item Object: its keys in document order
PathItem(template, item) == [template |-> template, item |-> item]

\* one path, the operation under both get and post
DocOf(op) == << PathItem(P_items, << <<"get", op>>, <<"post", op>> >>) >>

PathId == Param("path", "id", "true", <<>>)
OpById == Operation("getItem", << PathId, Param("query", "p", "true", <<>>) >>, NoBody)
OpMe == PlainOperation("getMe", NoBody)
OpPutMe == PlainOperation("putMe", JsonBody)
OpList == Operation("listItems", << Param("query", "q", "true", <<>>) >>, NoBody)
OpCreate == PlainOperation("createItem", JsonBody)
OpHead == PlainOperation("headItems", NoBody)
OpDelete == Operation("deleteItem", << PathId >>, NoBody)
OpHealth == Operation("specHealth", << Param("query", "p", "true", <<>>) >>, NoBody)

\* the value of a path item's "parameters" key: a list, not an operation
PathParameters == PlainOperation("(the path item's parameter list)", NoBody)

\* /items/{id} before /items/me: two templates of the same shape
DocOverlap ==
    << PathItem(P_items_id, << <<"get", OpById>>, <<"delete", OpDelete>> >>),
       PathItem(P_items_me, << <<"get", OpMe>>, <<"put", OpPutMe>> >>) >>

\* a path item with keys that are no routable method, and a path the gateway
\* itself serves
DocKeys ==
    << PathItem(P_items, << <<"parameters", PathParameters>>, <<"get", OpList>>,
                            <<"head", OpHead>>, <<"post", OpCreate>> >>),
       PathItem(P_health, << <<"get", OpHealth>> >>) >>

OpKindMe == Operation("getKindMe", << Param("path", "kind", "true", <<>>) >>, NoBody)
OpPutKindMe == Operation("putKindMe", << Param("path", "kind", "true", <<>>) >>, JsonBody)
OpPutById == Operation("putItem", << PathId >>, JsonBody)

\* /items/me before /items/{id}, and a template whose first segment is a placeholder
DocSpecific ==
    << PathItem(P_items_me, << <<"get", OpMe>> >>),
       PathItem(P_kind_me, << <<"get", OpKindMe>>, <<"put", OpPutKindMe>> >>),
       PathItem(P_items_id, << <<"get", OpById>>, <<"put", OpPutById>> >>) >>

Documents == { DocOf(op) : op \in Operations } \cup {DocOverlap, DocKeys, DocSpecific}

\* key in dict, dict[key]
has_key(d, k) == \E i \in 1..Len(d) : d[i][1] = k
get_key(d, k) == d[CHOOSE i \in 1..Len(d) : d[i][1] = k][2]

(***************************************************************************)
(* find_operation                                                          *)
(***************************************************************************)
\* the inner loop over zip(path_parts, template_parts)
RECURSIVE parts_match(_, _, _)
parts_match(path_parts, template_parts, i) ==
    IF i > Len(path_parts) \/ i > Len(template_parts) THEN TRUE
    ELSE IF startswith(template_parts[i], "{") /\ endswith(template_parts[i], "}")
         THEN parts_match(path_parts, template_parts, i + 1)
    ELSE IF path_parts[i] # template_parts[i] THEN FALSE
    ELSE parts_match(path_parts, template_parts, i + 1)

\* find_from giving up at the first template of the request's shape
RECURSIVE find_from_first_shape(_, _, _, _)
find_from_first_shape(path_parts, method, paths, k) ==
    IF k > Len(paths) THEN None
    ELSE LET template_parts == split(paths[k].template, "/")
             path_item == paths[k].item
         IN IF Len(path_parts) # Len(template_parts) \/ ~parts_match(path_parts, template_parts, 1)
            THEN find_from_first_shape(path_parts, method, paths, k + 1)
            ELSE IF has_key(path_item, lower(method))
                 THEN get_key(path_item, lower(method))
                 ELSE None

\* the outer loop over spec['paths'].items(), from the k-th item on
RECURSIVE find_from(_, _, _, _)
find_from(path_parts, method, paths, k) ==
    IF k > Len(paths) THEN None
    ELSE LET template_parts == split(paths[k].template, "/")
             path_item == paths[k].item
         IN IF Len(path_parts) # Len(template_parts)
            THEN find_from(path_parts, method, paths, k + 1)
            ELSE IF parts_match(path_parts, template_parts, 1) /\ has_key(path_item, lower(method))
                 THEN get_key(path_item, lower(method))
                 ELSE find_from(path_parts, method, paths, k + 1)

find_operation(path, method, spec) == find_from(split(path, "/"), method, spec, 1)

(***************************************************************************)
(* Requests and responses                                                  *)
(***************************************************************************)
\* Headers.get(name): the value, or Python's None
header_get(headers, name) ==
    IF \E h \in headers : lower(h[1]) = name
    THEN (CHOOSE h \in headers : lower(h[1]) = name)[2]
    ELSE "None"

header_in(headers, name) == \E h \in headers : lower(h[1]) = name

Host == <<"host", "gateway.local">>
JsonType == <<"content-type", "application/json">>
TextType == <<"content-type", "text/plain">>

\* raw query strings, as their name=value pairs in order: "", "p=a", "p=c",
\* "p=1", "q=a", "q=c", "p=a&q=a", "p=c&q=a", "p=c&p=a"
QueryStrings ==
    { <<>>, << <<"p", "a">> >>, << <<"p", "c">> >>, << <<"p", "1">> >>,
      << <<"q", "a">> >>, << <<"q", "c">> >>,
      << <<"p", "a">>, <<"q", "a">> >>, << <<"p", "c">>, <<"q", "a">> >>,
      << <<"p", "c">>, <<"p", "a">> >> }

\* raw request bodies: the byte 0xFF, an unclosed brace, an empty object, an
\* object with the field "name"
Bodies == { "\\xff", "{", "{}", "{\"name\": \"x\"}" }

Request(method, path, query, headers, body) ==
    [method |-> method, path |-> path, query |-> query, headers |-> headers, body |-> body]

NoRequest == Request("", <<>>, <<>>, {}, "")

Requests ==
    { Request("POST", P_items, q, {Host, ct}, b) :
        q \in QueryStrings, ct \in {JsonType, TextType}, b \in Bodies }
    \cup
    { Request("GET", P_items, q, {Host, ct}, "{") :
        q \in QueryStrings, ct \in {JsonType, TextType} }
    \cup
    { Request(m, pa, q, {Host, JsonType}, "{\"name\": \"x\"}") :
        m \in {"GET", "POST", "PUT", "DELETE", "HEAD"},
        pa \in {P_items, P_items_42, P_items_abc, P_items_me, P_items_42_extra,
                P_items_slash, P_health, P_ready},
        q \in { <<>>, << <<"p", "a">> >> } }

\* dict(request.query_params): a repeated name keeps its last value
in_query(query, name) == \E i \in 1..Len(query) : query[i][1] = name
query_value(query, name) ==
    query[CHOOSE i \in 1..Len(query) :
            /\ query[i][1] = name
            /\ \A j \in 1..Len(query) : query[j][1] = name => j <= i][2]

\* json.loads on the bodies of the model: the parsed object's field names, or
\* the exception raised
json_loads(body) ==
    CASE body = "{}" -> [error |-> "", fields |-> {}]
      [] body = "{\"name\": \"x\"}" -> [error |-> "", fields |-> {"name"}]
      [] body = "\\xff" -> [error |-> "UnicodeDecodeError", fields |-> {}]
      [] OTHER -> [error |-> "JSONDecodeError", fields |-> {}]

\* what a validation step or the forwarding step ends with
Passed == [kind |-> "ok", status |-> 0, detail |-> <<>>]
HTTPException(status_code, detail) == [kind |-> "http", status |-> status_code, detail |-> detail]
\* an exception no except clause of the code catches: the framework answers 500
Uncaught(exc) == [kind |-> "crash", status |-> 500, detail |-> <<exc>>]

NoResponse == [status |-> 0, headers |-> {}, body |-> "", detail |-> <<>>]
ErrorResponse(outcome) ==
    [status |-> outcome.status, headers |-> {}, body |-> "", detail |-> outcome.detail]

(***************************************************************************)
(* validate_parameters                                                     *)
(***************************************************************************)
in_list(value, list) == \E i \in 1..Len(list) : list[i] = value

\* ', '.join(list) raises TypeError unless every item is a str
joinable(list) == \A i \in 1..Len(list) : list[i].t = "str"

\* the body of the loop for one parameter: Passed means the loop goes on
check_parameter(param, query_params) ==
    IF param.in # "query" THEN Passed
    ELSE IF ~param.has_required THEN Uncaught("KeyError")
    ELSE IF param.required /\ ~in_query(query_params, param.name)
         THEN HTTPException(400, <<"Missing required query parameter", param.name>>)
    ELSE IF /\ in_query(query_params, param.name)
            /\ param.has_enum
            /\ ~in_list(JStr(query_value(query_params, param.name)), param.enum)
         THEN IF joinable(param.enum)
              THEN HTTPException(400, <<"Invalid value for", param.name>>)
              ELSE Uncaught("TypeError")
    ELSE Passed

RECURSIVE check_parameters_from(_, _, _)
check_parameters_from(parameters, i, query_params) ==
    IF i > Len(parameters) THEN Passed
    ELSE LET r == check_parameter(parameters[i], query_params)
         IN IF r.kind # "ok" THEN r
            ELSE check_parameters_from(parameters, i + 1, query_params)

validate_parameters(request, operation_def) ==
    IF operation_def.has_parameters
    THEN check_parameters_from(operation_def.parameters, 1, request.query)
    ELSE Passed

(***************************************************************************)
(* validate_request_body                                                   *)
(***************************************************************************)
\* jsonschema_validate against a schema that lists required fields
schema_valid(instance, schema_required) == schema_required \subseteq instance.fields

validate_request_body(request, operation_def) ==
    LET content_type == header_get(request.headers, "content-type")
        request_body_spec == operation_def.requestBody
    IN IF request.method \in {"POST", "PUT", "PATCH"} /\ request_body_spec.present
       THEN IF "application/json" \in request_body_spec.media
            THEN IF content_type # "application/json"
                 THEN HTTPException(415, <<"Unsupported Media Type. Expected 'application/json'">>)
                 ELSE LET request_body == json_loads(request.body)
                      IN IF request_body.error = "JSONDecodeError"
                         THEN HTTPException(400, <<"Invalid JSON body">>)
                         ELSE IF request_body.error # ""
                         THEN Uncaught(request_body.error)
                         ELSE IF ~request_body_spec.has_schema
                         THEN Uncaught("KeyError")
                         ELSE IF ~schema_valid(request_body, request_body_spec.required)
                         THEN HTTPException(400, <<"Invalid request body">>)
                         ELSE Passed
            ELSE Passed
       ELSE Passed

(***************************************************************************)
(* filter_headers and forward_request                                      *)
(***************************************************************************)
\* excluded_headers without content-encoding
excluded_headers_without_content_encoding == {"server", "transfer-encoding", "content-length"}

excluded_headers == {"server", "transfer-encoding", "content-encoding", "content-length"}

\* dict(response.headers): httpx gives the header names in lower case
dict_headers(headers) == { <<lower(h[1]), h[2]>> : h \in headers }

filter_headers(headers) == { h \in headers : lower(h[1]) \notin excluded_headers }

\* d[key] = value
set_item(d, key, value) == { h \in d : h[1] # key } \cup { <<key, value>> }

\* the headers forward_request gives the outbound response
cleaned_headers(response_headers) ==
    LET cleaned == filter_headers(dict_headers(response_headers))
    IN IF header_in(response_headers, "content-type")
       THEN set_item(cleaned, "content-type", header_get(response_headers, "content-type"))
       ELSE cleaned

\* os.getenv("UPSTREAM_SERVER_URL", ...)
upstream_url == "https://example.com/api"

\* full_url without the query
full_url_without_query(request) ==
    [base |-> upstream_url, path |-> request.path, mark |-> "", query |-> <<>>]

\* upstream_url + path, then "?" + query when the query is not empty
full_url(request) ==
    [base |-> upstream_url, path |-> request.path,
     mark |-> IF request.query # <<>> THEN "?" ELSE "",
     query |-> IF request.query # <<>> THEN request.query ELSE <<>>]

\* all of the request's headers except host
forwarded_headers(request) == { h \in request.headers : lower(h[1]) # "host" }

\* what client.request(...) ends with: a response, or an exception
UpstreamResponse(status_code, headers, content) ==
    [kind |-> "response", status |-> status_code, headers |-> headers, content |-> content]
UpstreamFailure(exc) == [kind |-> exc, status |-> 0, headers |-> {}, content |-> ""]

NoCall ==
    [issued |-> FALSE, method |-> "", url |-> full_url(NoRequest), headers |-> {},
     content |-> "", result |-> UpstreamFailure("")]

\* the client.request(...) call, and what it ended with
upstream_call(request, outcome) ==
    [issued |-> TRUE, method |-> request.method, url |-> full_url(request),
     headers |-> forwarded_headers(request), content |-> request.body, result |-> outcome]

UpstreamHeaders ==
    { <<"Server", "nginx">>, <<"Transfer-Encoding", "chunked">>, <<"content-encoding", "gzip">>,
      <<"Content-Length", "2">>, <<"Content-Type", "application/json">>, <<"X-Request-Id", "r1">> }

UpstreamFailures ==
    { UpstreamFailure("TimeoutException"), UpstreamFailure("ConnectError"),
      UpstreamFailure("Exception") }

\* the upstream's answers in the gateway's runs
UpstreamOutcomes ==
    UpstreamFailures \cup
    { UpstreamResponse(st, h, c) :
        st \in {200, 500},
        h \in { {}, UpstreamHeaders },
        c \in {"[]", "upstream says no"} }

\* every header set the upstream can send
AllUpstreamOutcomes ==
    UpstreamFailures \cup
    { UpstreamResponse(st, h, "[]") : st \in {200, 500}, h \in SUBSET UpstreamHeaders }

\* forward_result with an upstream 5xx taken for a failure of the call
forward_result_raise_for_status(outcome) ==
    IF outcome.kind = "response" /\ outcome.status < 500
    THEN [status |-> outcome.status, headers |-> {}, body |-> outcome.content, detail |-> <<>>]
    ELSE IF outcome.kind \in {"TimeoutException", "ConnectError"}
    THEN ErrorResponse(HTTPException(504, <<"Gateway Timeout">>))
    ELSE ErrorResponse(HTTPException(502, <<"Bad Gateway">>))

\* the try block's result for what client.request(...) ended with
forward_result(outcome) ==
    CASE outcome.kind = "response" ->
            [status |-> outcome.status, headers |-> cleaned_headers(outcome.headers),
             body |-> outcome.content, detail |-> <<>>]
      [] outcome.kind = "TimeoutException" ->
            ErrorResponse(HTTPException(504,
                <<"Gateway Timeout - Upstream service took too long to respond">>))
      [] outcome.kind = "ConnectError" ->
            ErrorResponse(HTTPException(504,
                <<"Gateway Timeout - Unable to connect to upstream service">>))
      [] OTHER -> ErrorResponse(HTTPException(502, <<"Bad Gateway">>))

(***************************************************************************)
(* load_openapi_spec and the routes                                        *)
(***************************************************************************)
Unread == [kind |-> "unread", doc |-> <<>>]

\* what open(spec_path) can find
SpecFiles ==
    { [kind |-> "missing", doc |-> <<>>], [kind |-> "unparseable", doc |-> <<>>] }
    \cup { [kind |-> "invalid", doc |-> d] : d \in {DocOverlap, DocKeys} }
    \cup { [kind |-> "valid", doc |-> d] : d \in Documents }

\* load_openapi_spec without validate_spec
load_openapi_spec_unvalidated(file) ==
    CASE file.kind = "missing" -> [raised |-> "FileNotFoundError", spec |-> <<>>]
      [] file.kind = "unparseable" -> [raised |-> "JSONDecodeError", spec |-> <<>>]
      [] OTHER -> [raised |-> "", spec |-> file.doc]

\* the exception load_openapi_spec re-raises, or the spec it returns
load_openapi_spec(file) ==
    CASE file.kind = "missing" -> [raised |-> "FileNotFoundError", spec |-> <<>>]
      [] file.kind = "unparseable" -> [raised |-> "JSONDecodeError", spec |-> <<>>]
      [] file.kind = "invalid" -> [raised |-> "OpenAPIValidationError", spec |-> <<>>]
      [] OTHER -> [raised |-> "", spec |-> file.doc]

\* a route: the router compiles the path into its segments when the route is added
Route(path, method, kind, operation_def) ==
    [path |-> path, parts |-> split(path, "/"), method |-> method, kind |-> kind,
     op_def |-> operation_def]

\* @app.get("/health") and @app.get("/ready"), registered at import
BuiltinRoutes ==
    << Route(P_health, "GET", "health_check", None),
       Route(P_ready, "GET", "readiness_check", None) >>

registered_methods == {"GET", "POST", "PUT", "DELETE", "PATCH"}

\* the closure reading operation_def when called: the last operation iterated
bound_operation_late(path_def, i) == path_def[Len(path_def)][2]

\* the operation the endpoint closure of a route is given: op_def=operation_def
\* binds the operation of this iteration
bound_operation(path_def, i) == path_def[i][2]

\* the inner loop over path_def.items(), from the i-th key on
RECURSIVE register_methods(_, _, _)
register_methods(path, path_def, i) ==
    IF i > Len(path_def) THEN <<>>
    ELSE IF upper(path_def[i][1]) \notin registered_methods
         THEN register_methods(path, path_def, i + 1)
         ELSE <<Route(path, upper(path_def[i][1]), "endpoint", bound_operation(path_def, i))>>
              \o register_methods(path, path_def, i + 1)

\* the outer loop over app.openapi_spec["paths"].items(), from the k-th path on
RECURSIVE register_paths(_, _)
register_paths(paths, k) ==
    IF k > Len(paths) THEN <<>>
    ELSE register_methods(paths[k].template, paths[k].item, 1) \o register_paths(paths, k + 1)

\* the router's match of a path against a route's path: a {name} segment takes
\* any non-empty segment, any other segment must be equal
RECURSIVE segments_match(_, _, _)
segments_match(path_parts, template_parts, i) ==
    IF i > Len(template_parts) THEN TRUE
    ELSE IF startswith(template_parts[i], "{") /\ endswith(template_parts[i], "}")
         THEN Len(path_parts[i]) > 0 /\ segments_match(path_parts, template_parts, i + 1)
         ELSE path_parts[i] = template_parts[i] /\ segments_match(path_parts, template_parts, i + 1)

path_matches(route, path_parts) ==
    Len(path_parts) = Len(route.parts) /\ segments_match(path_parts, route.parts, 1)

\* the router's scan of the routes in registration order, from the i-th on: the
\* index of the first route that matches path and method, or 0
RECURSIVE dispatch_from(_, _, _, _)
dispatch_from(rs, method, path_parts, i) ==
    IF i > Len(rs) THEN 0
    ELSE IF rs[i].method = method /\ path_matches(rs[i], path_parts) THEN i
    ELSE dispatch_from(rs, method, path_parts, i + 1)

dispatch(rs, request) == dispatch_from(rs, request.method, split(request.path, "/"), 1)

(***************************************************************************)
(* The gateway                                                             *)
(***************************************************************************)
NoSpec == [set |-> FALSE, doc |-> <<>>]

Init ==
    /\ spec_file = Unread
    /\ phase = "init"
    /\ app_spec = NoSpec
    /\ routes = BuiltinRoutes
    /\ pc = "idle"
    /\ req = NoRequest
    /\ entry = 0
    /\ op_def = None
    /\ trace = <<>>
    /\ upstream = NoCall
    /\ resp = NoResponse

\* startup_event: load the document, keep it on the application, register a
\* route per operation; an exception of load_openapi_spec ends the startup
startup_event ==
    /\ phase = "init"
    /\ pc = "idle"
    /\ \E file \in SpecFiles :
        LET loaded == load_openapi_spec(file)
        IN /\ spec_file' = file
           /\ IF loaded.raised # ""
              THEN /\ phase' = "aborted"
                   /\ UNCHANGED <<app_spec, routes>>
              ELSE /\ phase' = "serving"
                   /\ app_spec' = [set |-> TRUE, doc |-> loaded.spec]
                   /\ routes' = routes \o register_paths(loaded.spec, 1)
    /\ UNCHANGED <<pc, req, entry, op_def, trace, upstream, resp>>

\* a request arrives and the router finds the route handling it
handled_by(request, kind) ==
    LET i == dispatch(routes, request)
    IN /\ pc = "idle"
       /\ i # 0
       /\ routes[i].kind = kind
       /\ req' = request
       /\ entry' = i

\* GET /health
health_check ==
    /\ \E request \in Requests : handled_by(request, "health_check")
    /\ resp' = [status |-> 200, headers |-> {}, body |-> "healthy", detail |-> <<>>]
    /\ pc' = "done"
    /\ UNCHANGED <<spec_file, phase, app_spec, routes, op_def, trace, upstream>>

\* GET /ready
readiness_check ==
    /\ \E request \in Requests : handled_by(request, "readiness_check")
    /\ resp' = IF ~app_spec.set
               THEN [status |-> 503, headers |-> {}, body |-> "not ready", detail |-> <<>>]
               ELSE [status |-> 200, headers |-> {}, body |-> "ready", detail |-> <<>>]
    /\ pc' = "done"
    /\ UNCHANGED <<spec_file, phase, app_spec, routes, op_def, trace, upstream>>

\* no route takes the request: the router answers 405 when a route has the path
\* but not the method, and 404 otherwise
not_found ==
    /\ pc = "idle"
    /\ \E request \in Requests :
        /\ dispatch(routes, request) = 0
        /\ req' = request
        /\ resp' = [status |-> IF \E i \in 1..Len(routes) :
                                        path_matches(routes[i], split(request.path, "/"))
                               THEN 405 ELSE 404,
                    headers |-> {}, body |-> "", detail |-> <<"Not Found">>]
    /\ pc' = "done"
    /\ UNCHANGED <<spec_file, phase, app_spec, routes, entry, op_def, trace, upstream>>

\* endpoint with the result of validate_parameters dropped
endpoint_ignoring_parameter_failure ==
    /\ \E request \in Requests :
        /\ handled_by(request, "endpoint")
        /\ op_def' = routes[dispatch(routes, request)].op_def
    /\ pc' = "validate_request_body"
    /\ resp' = resp
    /\ trace' = <<"validate_parameters">>
    /\ UNCHANGED <<spec_file, phase, app_spec, routes, upstream>>

\* endpoint, up to its first await: the closure's operation, validate_parameters
endpoint ==
    /\ \E request \in Requests :
        /\ handled_by(request, "endpoint")
        /\ LET op == routes[dispatch(routes, request)].op_def
               checked == validate_parameters(request, op)
           IN /\ op_def' = op
              /\ IF checked.kind = "ok"
                 THEN pc' = "validate_request_body" /\ resp' = resp
                 ELSE pc' = "done" /\ resp' = ErrorResponse(checked)
    /\ trace' = <<"validate_parameters">>
    /\ UNCHANGED <<spec_file, phase, app_spec, routes, upstream>>

\* endpoint: await validate_request_body(request, op_def)
endpoint_validate_request_body ==
    /\ pc = "validate_request_body"
    /\ LET checked == validate_request_body(req, op_def)
       IN IF checked.kind = "ok"
          THEN pc' = "forward_request" /\ resp' = resp
          ELSE pc' = "done" /\ resp' = ErrorResponse(checked)
    /\ trace' = Append(trace, "validate_request_body")
    /\ UNCHANGED <<spec_file, phase, app_spec, routes, req, entry, op_def, upstream>>

\* endpoint: return await forward_request(request), the upstream answering with
\* one of outcomes
forward_request_to(outcomes) ==
    /\ pc = "forward_request"
    /\ \E outcome \in outcomes :
        /\ upstream' = upstream_call(req, outcome)
        /\ resp' = forward_result(outcome)
    /\ trace' = Append(trace, "forward_request")
    /\ pc' = "done"
    /\ UNCHANGED <<spec_file, phase, app_spec, routes, req, entry, op_def>>

forward_request == forward_request_to(UpstreamOutcomes)

\* the response is sent; the request's state is gone
respond ==
    /\ pc = "done"
    /\ pc' = "idle"
    /\ req' = NoRequest
    /\ entry' = 0
    /\ op_def' = None
    /\ trace' = <<>>
    /\ upstream' = NoCall
    /\ resp' = NoResponse
    /\ UNCHANGED <<spec_file, phase, app_spec, routes>>

Next ==
    \/ startup_event
    \/ health_check
    \/ readiness_check
    \/ not_found
    \/ endpoint
    \/ endpoint_validate_request_body
    \/ forward_request
    \/ respond

Spec == Init /\ [][Next]_vars

(***************************************************************************)
(* The forwarding step alone, on every header set the upstream can send    *)
(***************************************************************************)
\* requests that have passed both validations under DocKeys
ForwardRequests ==
    { Request("POST", P_items, <<>>, {Host, JsonType}, "{\"name\": \"x\"}"),
      Request("GET", P_items, << <<"q", "a">> >>, {Host, TextType}, "{") }

ForwardInit ==
    /\ spec_file = [kind |-> "valid", doc |-> DocKeys]
    /\ phase = "serving"
    /\ app_spec = [set |-> TRUE, doc |-> DocKeys]
    /\ routes = BuiltinRoutes \o register_paths(DocKeys, 1)
    /\ pc = "forward_request"
    /\ req \in ForwardRequests
    /\ entry = dispatch(routes, req)
    /\ op_def = routes[entry].op_def
    /\ trace = <<"validate_parameters", "validate_request_body">>
    /\ upstream = NoCall
    /\ resp = NoResponse

forward_any == forward_request_to(AllUpstreamOutcomes)

ForwardNext == forward_any \/ respond

ForwardSpec == ForwardInit /\ [][ForwardNext]_vars

(***************************************************************************)
(* find_operation alone                                                    *)
(***************************************************************************)
MatchDocuments == {DocOverlap, DocKeys, DocSpecific}

MatchPaths ==
    {P_items, P_items_42, P_items_abc, P_items_me, P_items_42_extra, P_items_slash,
     P_health, P_ready, P_items_id}

MatchMethods == {"GET", "get", "Get", "POST", "PUT", "DELETE", "HEAD", "parameters"}

\* the gateway serving one of the documents
MatchInit ==
    /\ spec_file \in { [kind |-> "valid", doc |-> d] : d \in MatchDocuments }
    /\ phase = "serving"
    /\ app_spec = [set |-> TRUE, doc |-> spec_file.doc]
    /\ routes = BuiltinRoutes \o register_paths(spec_file.doc, 1)
    /\ pc = "idle"
    /\ req = NoRequest
    /\ entry = 0
    /\ op_def = None
    /\ trace = <<>>
    /\ upstream = NoCall
    /\ resp = NoResponse

\* a call find_operation(path, method, spec) and its result
match_call ==
    /\ pc = "idle"
    /\ \E path \in MatchPaths, method \in MatchMethods :
        /\ req' = Request(method, path, <<>>, {}, "")
        /\ op_def' = find_operation(path, method, app_spec.doc)
    /\ pc' = "found"
    /\ UNCHANGED <<spec_file, phase, app_spec, routes, entry, trace, upstream, resp>>

match_return ==
    /\ pc = "found"
    /\ pc' = "idle"
    /\ req' = NoRequest
    /\ op_def' = None
    /\ UNCHANGED <<spec_file, phase, app_spec, routes, entry, trace, upstream, resp>>

MatchNext == match_call \/ match_return

MatchSpec == MatchInit /\ [][MatchNext]_vars

(***************************************************************************)
(* Properties                                                              *)
(***************************************************************************)
\* the request in flight is handled by a route registered from the document
InEndpoint == entry # 0 /\ routes[entry].kind = "endpoint"

\* C1: a request handled by a registered entry is forwarded only after
\* validate_parameters and then validate_request_body have both passed for it; a
\* failure of either ends the request with that failure's status and without an
\* upstream call, and a parameter failure comes before a body failure.
C1_ValidationBeforeUpstream ==
    InEndpoint =>
        LET vp == validate_parameters(req, op_def)
            vb == validate_request_body(req, op_def)
        IN /\ \E n \in 0..3 :
                trace = SubSeq(<<"validate_parameters", "validate_request_body", "forward_request">>, 1, n)
           /\ upstream.issued =>
                /\ vp.kind = "ok" /\ vb.kind = "ok"
                /\ trace = <<"validate_parameters", "validate_request_body", "forward_request">>
           /\ pc = "forward_request" =>
                /\ vp.kind = "ok" /\ vb.kind = "ok"
                /\ trace = <<"validate_parameters", "validate_request_body">>
           /\ vp.kind = "http" =>
                /\ pc = "done" /\ trace = <<"validate_parameters">>
                /\ resp.status = vp.status /\ resp.status = 400
                /\ ~upstream.issued
           /\ (vp.kind = "ok" /\ vb.kind = "http" /\ pc = "done") =>
                /\ resp.status = vb.status /\ resp.status \in {400, 415}
                /\ ~upstream.issued

\* C1's case: a request that fails both validations is answered 400
C1_Witness ==
    /\ InEndpoint /\ pc = "done"
    /\ validate_parameters(req, op_def).kind = "http"
    /\ validate_request_body(req, op_def).status = 415
    /\ resp.status = 400

\* an operation with no parameter and no body constraint
Unconstrained(op) == op.parameters = <<>> /\ ~op.requestBody.present

\* C2: a request to an operation without parameter or body constraints is
\* forwarded with its method, with the URL upstream_base_url + path (+ "?" +
\* query when the query is not empty) and with its raw body; a response of the
\* upstream is returned with its status code and body.
C2_ForwardsUnchanged ==
    (InEndpoint /\ Unconstrained(op_def) /\ pc = "done") =>
        /\ upstream.issued
        /\ upstream.method = req.method
        /\ upstream.url = [base |-> "https://example.com/api", path |-> req.path,
                           mark |-> IF Len(req.query) = 0 THEN "" ELSE "?",
                           query |-> req.query]
        /\ upstream.content = req.body
        /\ upstream.result.kind = "response" =>
                /\ resp.status = upstream.result.status
                /\ resp.body = upstream.result.content

\* C2's case: a request with a query, relayed with the upstream's 500
C2_Witness ==
    /\ InEndpoint /\ Unconstrained(op_def) /\ pc = "done"
    /\ req.query # <<>>
    /\ upstream.result.kind = "response" /\ upstream.result.status = 500
    /\ resp.body = "upstream says no"

\* C6: a timeout or a connection failure of the upstream call gives 504, any
\* other failure 502, both with a fixed message and nothing else; a response
\* received, whatever its status code, is returned with that status code.
C6_UpstreamOutcomeMapping ==
    (pc = "done" /\ upstream.issued) =>
        LET k == upstream.result.kind
        IN /\ k = "TimeoutException" =>
                resp = [status |-> 504, headers |-> {}, body |-> "",
                        detail |-> <<"Gateway Timeout - Upstream service took too long to respond">>]
           /\ k = "ConnectError" =>
                resp = [status |-> 504, headers |-> {}, body |-> "",
                        detail |-> <<"Gateway Timeout - Unable to connect to upstream service">>]
           /\ k = "Exception" =>
                resp = [status |-> 502, headers |-> {}, body |-> "", detail |-> <<"Bad Gateway">>]
           /\ k = "response" => resp.status = upstream.result.status /\ resp.detail = <<>>

\* C6's case: the upstream's own 500 is relayed as 500
C6_Witness ==
    /\ pc = "done" /\ upstream.issued
    /\ upstream.result.kind = "response" /\ upstream.result.status = 500
    /\ resp.status = 500

\* C7: the headers of a relayed response hold none of server, transfer-encoding,
\* content-encoding, content-length (in any case), hold every other header of
\* the upstream with its value, and hold content-type with the upstream's value
\* when the upstream sent one.
C7_SanitizedHeaders ==
    (pc = "done" /\ upstream.result.kind = "response") =>
        /\ \A h \in resp.headers :
                lower(h[1]) \notin {"server", "transfer-encoding", "content-encoding", "content-length"}
        /\ \A u \in upstream.result.headers :
                lower(u[1]) \notin {"server", "transfer-encoding", "content-encoding", "content-length"}
                    => \E h \in resp.headers : lower(h[1]) = lower(u[1]) /\ h[2] = u[2]
        /\ \A u \in upstream.result.headers :
                lower(u[1]) = "content-type" => <<"content-type", u[2]>> \in resp.headers

\* C7's case: an upstream response with transfer-encoding and content-type
C7_Witness ==
    /\ pc = "done" /\ upstream.result.kind = "response"
    /\ <<"Transfer-Encoding", "chunked">> \in upstream.result.headers
    /\ <<"Content-Type", "application/json">> \in upstream.result.headers
    /\ <<"content-type", "application/json">> \in resp.headers

\* a template segment of the form {name}
IsPlaceholder(segment) ==
    Len(segment) >= 2 /\ segment[1] = "{" /\ segment[Len(segment)] = "}"

\* the template has the path's number of segments, each of its segments is a
\* placeholder or the path's segment, and the path item declares the method
Fits(path, method, path_item) ==
    LET path_parts == split(path, "/")
        template_parts == split(path_item.template, "/")
    IN /\ Len(path_parts) = Len(template_parts)
       /\ \A i \in 1..Len(template_parts) :
            IsPlaceholder(template_parts[i]) \/ path_parts[i] = template_parts[i]
       /\ \E i \in 1..Len(path_item.item) : path_item.item[i][1] = lower(method)

\* C8: find_operation returns the operation, under the lower-cased method, of
\* the first path template in document order that has the path's number of
\* segments, whose non-placeholder segments equal the path's, and that declares
\* the method; it returns None when there is none.  /items/42 and /items/abc
\* match /items/{id}, /items/42/extra does not, and document order decides
\* between overlapping templates.
C8_FirstFittingTemplate ==
    pc = "found" =>
        LET doc == app_spec.doc
            fitting == { k \in 1..Len(doc) : Fits(req.path, req.method, doc[k]) }
            first == CHOOSE k \in fitting : \A l \in fitting : k <= l
        IN /\ fitting = {} => op_def = None
           /\ fitting # {} =>
                \E i \in 1..Len(doc[first].item) :
                    /\ doc[first].item[i][1] = lower(req.method)
                    /\ op_def = doc[first].item[i][2]
           /\ (doc = DocOverlap /\ req.method = "GET"
                    /\ req.path \in {P_items_42, P_items_abc, P_items_me}) => op_def = OpById
           /\ (doc = DocOverlap /\ req.path = P_items_42_extra) => op_def = None
           /\ (doc = DocSpecific /\ req.method = "GET" /\ req.path = P_items_me) => op_def = OpMe

\* C8's case: the first template of the path's shape lacks the method and a
\* later one has it
C8_Witness ==
    /\ pc = "found"
    /\ app_spec.doc = DocOverlap
    /\ req.path = P_items_me /\ req.method = "PUT"
    /\ op_def = OpPutMe

\* C9: when loading the specification fails, the startup ends there: the
\* application holds no specification, no route is registered from it, no
\* request is validated or forwarded, and /ready never answers ready; and
\* whenever /ready answers ready, a specification that passed the meta-schema
\* validation is loaded.
C9_NoServingWithoutSpecification ==
    /\ spec_file.kind \in {"missing", "unparseable", "invalid"} =>
            /\ phase = "aborted"
            /\ ~app_spec.set
            /\ routes = BuiltinRoutes
            /\ \A i \in 1..Len(routes) : routes[i].kind # "endpoint"
            /\ trace = <<>>
            /\ ~upstream.issued
            /\ ~(entry # 0 /\ routes[entry].kind = "readiness_check" /\ resp.status = 200)
    /\ (entry # 0 /\ routes[entry].kind = "readiness_check" /\ resp.status = 200) =>
            /\ phase = "serving"
            /\ spec_file.kind = "valid"
            /\ app_spec = [set |-> TRUE, doc |-> spec_file.doc]

\* C9's case: /ready asked after a failed load
C9_Witness ==
    /\ spec_file.kind = "invalid"
    /\ phase = "aborted"
    /\ entry # 0 /\ routes[entry].kind = "readiness_check"
    /\ resp.status = 503

\* the (path, key) places of the document whose key is a routable method
DeclaredPairs(doc) ==
    { <<k, i>> \in (1..Len(doc)) \X (1..4) :
        i <= Len(doc[k].item) /\ upper(doc[k].item[i][1]) \in {"GET", "POST", "PUT", "DELETE", "PATCH"} }

\* the route is the entry of the pair at <<k, i>>
EntryOf(route, doc, pair) ==
    /\ route.kind = "endpoint"
    /\ route.path = doc[pair[1]].template
    /\ route.method = upper(doc[pair[1]].item[pair[2]][1])
    /\ route.op_def = doc[pair[1]].item[pair[2]][2]

\* after the two routes of the gateway itself, the routes are the entries of the
\* declared pairs, one each, in document order
EntriesAreThePairs ==
    LET doc == app_spec.doc
        pairs == DeclaredPairs(doc)
    IN /\ Len(routes) = 2 + Cardinality(pairs)
       /\ SubSeq(routes, 1, 2) = BuiltinRoutes
       /\ \A pair \in pairs :
            \E r \in 3..Len(routes) :
                /\ EntryOf(routes[r], doc, pair)
                /\ r = 2 + Cardinality({ q \in pairs : q[1] < pair[1] \/ (q[1] = pair[1] /\ q[2] <= pair[2]) })

\* the route has the request's method and its template takes the request's path
RouteTakes(route, request) ==
    route.method = request.method /\ path_matches(route, split(request.path, "/"))

\* the request in flight is a request to the declared pair
RequestTo(doc, pair) ==
    /\ req.method = upper(doc[pair[1]].item[pair[2]][1])
    /\ path_matches(Route(doc[pair[1]].template, req.method, "endpoint", None), split(req.path, "/"))

\* C10 as claimed: after a successful startup the entries are exactly the
\* declared pairs, and every request to a declared pair is handled by that
\* pair's entry and validated against that pair's operation.
C10_OwnOperationAlways ==
    phase = "serving" =>
        /\ EntriesAreThePairs
        /\ pc # "idle" =>
            \A pair \in DeclaredPairs(app_spec.doc) :
                RequestTo(app_spec.doc, pair) =>
                    /\ entry # 0
                    /\ EntryOf(routes[entry], app_spec.doc, pair)
                    /\ op_def = routes[entry].op_def

\* C10 amended: after a successful startup the entries are exactly the declared
\* pairs, one each, in document order after /health and /ready; a request is
\* handled by the first route in that order whose template and method match
\* it, and an entry validates it against the operation captured for that
\* entry's own pair.
C10_FirstMatchingEntry ==
    phase = "serving" =>
        /\ EntriesAreThePairs
        /\ (pc # "idle" /\ entry # 0) =>
            /\ RouteTakes(routes[entry], req)
            /\ \A j \in 1..(entry - 1) : ~RouteTakes(routes[j], req)
        /\ (pc # "idle" /\ entry = 0) =>
            \A j \in 1..Len(routes) : ~RouteTakes(routes[j], req)
        /\ (pc # "idle" /\ InEndpoint) =>
            /\ op_def = routes[entry].op_def
            /\ \E pair \in DeclaredPairs(app_spec.doc) :
                /\ EntryOf(routes[entry], app_spec.doc, pair)
                /\ entry = 2 + Cardinality({ q \in DeclaredPairs(app_spec.doc) :
                                q[1] < pair[1] \/ (q[1] = pair[1] /\ q[2] <= pair[2]) })

\* C10's case: a request to /items/me where /items/{id} is declared first
C10_Witness ==
    /\ phase = "serving" /\ app_spec.doc = DocOverlap
    /\ pc = "done"
    /\ req.path = P_items_me /\ req.method = "GET"
    /\ op_def = OpById

\* C3: a request that lacks a required query parameter declared by the
\* operation is answered 400 and is not forwarded, whatever other parameters the
\* operation declares before or after it and whatever else the request holds.
\* (The detail of the 400 names the first parameter that fails its check.)
C3_MissingRequiredIs400 ==
    (InEndpoint /\ pc # "idle") =>
        \A i \in 1..Len(op_def.parameters) :
            LET param == op_def.parameters[i]
            IN (/\ param.in = "query"
                /\ param.has_required /\ param.required
                /\ ~in_query(req.query, param.name))
               => /\ pc = "done"
                  /\ resp.status = 400
                  /\ ~upstream.issued

\* every declared check of the request other than the i-th parameter's passes
OthersPass(i) ==
    /\ \A j \in 1..Len(op_def.parameters) :
            j # i => check_parameter(op_def.parameters[j], req.query).kind = "ok"
    /\ validate_request_body(req, op_def).kind = "ok"

\* C4: for a declared query parameter that the request supplies: with an
\* enumerated set and a value outside it the answer is 400 and nothing is
\* forwarded; with a value inside it, and every other declared check passing,
\* the request is forwarded; without an enumerated set the parameter causes no
\* failure.
C4_EnumMembership ==
    (InEndpoint /\ pc = "done") =>
        \A i \in 1..Len(op_def.parameters) :
            LET param == op_def.parameters[i]
                supplied == in_query(req.query, param.name)
                member == \E e \in 1..Len(param.enum) :
                            param.enum[e] = JStr(query_value(req.query, param.name))
            IN (param.in = "query" /\ supplied) =>
                /\ (param.has_enum /\ ~member) => (resp.status = 400 /\ ~upstream.issued)
                /\ (param.has_enum /\ member /\ OthersPass(i)) => upstream.issued
                /\ (~param.has_enum /\ OthersPass(i)) => upstream.issued

\* C5: for a POST, PUT or PATCH request that passed the parameter validation,
\* to an operation whose request body declares an application/json schema: 415
\* when the content-type is not application/json; else 400 when the body does
\* not parse as JSON; else 400 when the parsed body violates the schema; else
\* the request is forwarded.  For another method, or an operation without a
\* request body, the body validation does not fail.
C5_BodyValidationOrder ==
    (InEndpoint /\ pc = "done" /\ validate_parameters(req, op_def).kind = "ok") =>
        LET body_spec == op_def.requestBody
            parsed == json_loads(req.body)
        IN IF req.method \notin {"POST", "PUT", "PATCH"} \/ ~body_spec.present
           THEN upstream.issued
           ELSE ("application/json" \in body_spec.media /\ body_spec.has_schema) =>
                    IF <<"content-type", "application/json">> \notin req.headers
                    THEN resp.status = 415 /\ ~upstream.issued
                    ELSE IF parsed.error # ""
                    THEN resp.status = 400 /\ ~upstream.issued
                    ELSE IF ~(body_spec.required \subseteq parsed.fields)
                    THEN resp.status = 400 /\ ~upstream.issued
                    ELSE upstream.issued

====
